---- MODULE Spec2Model ----
(***************************************************************************)
(* A model of ip2whois (src/main.go): the lookup client fetchIP2Whois, the *)
(* redaction filter removeRedactedAndEmptyFields and the driver main that  *)
(* tries the API keys of the -k flag one after the other.                  *)
(*                                                                         *)
(* Strings the program inspects byte by byte (flag values, keys, field     *)
(* values) are sequences of one-character strings.  A JSON value, and the  *)
(* Go value json.Unmarshal builds from it, is a tagged record:             *)
(*   Str(s) string, Num(n) float64, Bool(b) bool, Null nil,                *)
(*   Arr(a) []interface{}, Map(m) map[string]interface{} (m a function     *)
(*   from the keys present to values), NilMap the nil map.                 *)
(***************************************************************************)
EXTENDS Integers, Sequences, FiniteSets, TLC

VARIABLES
    apiKeys,        \* value of the -k flag
    domain,         \* value of the -d flag
    hideRedacted,   \* value of the -clean flag
    pc,             \* position of main
    keys,           \* the slice strings.Split returned
    idx,            \* index of the next element of keys the loop ranges over
    success,        \* main's local variable success
    calls,          \* the calls of fetchIP2Whois so far: [apiKey, domain, ok]
    lastResp,       \* what the remote end answered to the last call
    lastResult,     \* what the last call of fetchIP2Whois returned
    stdout,         \* the lines printed so far
    exitCode,       \* the exit code of the process, -1 while it runs
    node,           \* filter development: the mapping given to the filter
    result,         \* filter development: the filter's output for node
    again,          \* filter development: the filter's output for result
    phase           \* filter development: how far the filter has been applied

driverVars == <<apiKeys, domain, hideRedacted, pc, keys, idx, success, calls,
                lastResp, lastResult, stdout, exitCode>>
filterVars == <<node, result, again, phase>>
vars == <<driverVars, filterVars>>

---------------------------------------------------------------------------
(* Bounds of the model.                                                    *)

\* the largest number of nodes of a record tree given to the filter
MaxNodes == 4
\* the largest number of comma-separated segments of the -k flag value
MaxKeys == 3

---------------------------------------------------------------------------
(* Values.                                                                 *)

Str(s)  == [t |-> "string", s |-> s]
Num(n)  == [t |-> "number", n |-> n]
Bool(b) == [t |-> "bool", b |-> b]
Null    == [t |-> "null"]
Arr(a)  == [t |-> "array", a |-> a]
Map(m)  == [t |-> "map", m |-> m]
NilMap  == [t |-> "nilmap"]

EmptyFields == [k \in {} |-> Null]

\* the marker of line 55
REDACTED == <<"R", "E", "D", "A", "C", "T", "E", "D">>

\* strings.Contains(s, substr)
Contains(s, substr) ==
    \E i \in 0..(Len(s) - Len(substr)) :
        SubSeq(s, i + 1, i + Len(substr)) = substr

\* the number of entries of a Go map, len(m)
MapLen(v) == IF v.t = "nilmap" THEN 0 ELSE Cardinality(DOMAIN v.m)

\* the entries a range over a Go map visits: none for the nil map
Entries(v) == IF v.t = "nilmap" THEN EmptyFields ELSE v.m

\* the strings tried as field values
sEmpty    == <<>>
sOk       == <<"o", "k">>
sMarker   == <<"R", "E", "D", "A", "C", "T", "E", "D">>
sPrivacy  == <<"i", "s", " ", "R", "E", "D", "A", "C", "T", "E", "D", " ", "x">>
sLower    == <<"r", "e", "d", "a", "c", "t", "e", "d">>

---------------------------------------------------------------------------
(* The redaction filter, lines 48-78.                                      *)

\* a filter that also takes the marker in lower case for a redaction
KeepStringAnyCase(v) ==
    v.s # <<>> /\ ~Contains(v.s, REDACTED) /\ ~Contains(v.s, sLower)

\* case string, line 55
KeepString(v) == v.s # <<>> /\ ~Contains(v.s, REDACTED)

\* a filter that keeps a nested mapping whatever is left of it
KeepNestedAlways(cleanedNested) == TRUE

\* case map[string]interface{}, line 61: cleanedNested is the cleaned map
KeepNested(cleanedNested) == MapLen(cleanedNested) > 0

\* case []interface{}, line 66
KeepArray(v) == Len(v.a) > 0

\* default, line 71
KeepOther(v) == v.t # "null"

RECURSIVE removeRedactedAndEmptyFields(_)

\* a filter that tests the nested mapping itself, not what is left of it
KeepsUncleaned(value) ==
    CASE value.t = "string" -> KeepString(value)
      [] value.t = "map"    -> MapLen(value) > 0
      [] value.t = "array"  -> KeepArray(value)
      [] OTHER              -> KeepOther(value)

\* whether the switch of lines 52-74 stores the key of this value
Keeps(value) ==
    CASE value.t = "string" -> KeepString(value)
      [] value.t = "map"    -> KeepNested(removeRedactedAndEmptyFields(value))
      [] value.t = "array"  -> KeepArray(value)
      [] OTHER              -> KeepOther(value)

\* a filter that also drops the null elements of a sequence
StoredWithoutNullElements(value) ==
    IF value.t = "map" THEN removeRedactedAndEmptyFields(value)
    ELSE IF value.t = "array" THEN Arr(SelectSeq(value.a, LAMBDA e : e.t # "null"))
    ELSE value

\* the value the switch stores under the key: v, or cleanedNested for a map
Stored(value) ==
    IF value.t = "map" THEN removeRedactedAndEmptyFields(value) ELSE value

\* a filter that returns the nil map when nothing is left
removeReturningNilWhenEmpty(data) ==
    LET m == Entries(data)
        kept == {k \in DOMAIN m : Keeps(m[k])}
    IN  IF kept = {} THEN NilMap ELSE Map([key \in kept |-> Stored(m[key])])

removeRedactedAndEmptyFields(data) ==
    LET m == Entries(data)
    IN  Map([key \in {k \in DOMAIN m : Keeps(m[k])} |-> Stored(m[key])])

---------------------------------------------------------------------------
(* The record trees the filter is tried on: every mapping of at most       *)
(* MaxNodes nodes over the field names and leaves below, and the record    *)
(* of the documented scenario.                                             *)

FieldNames == {"a", "b"}

Leaves == {Str(sEmpty), Str(sOk), Str(sPrivacy), Str(sLower),
           Num(0), Bool(FALSE), Null}

RECURSIVE ValuesOfSize(_), SeqsOfSize(_), FieldsOfSize(_, _)

\* the values of exactly n nodes, n >= 1
ValuesOfSize(n) ==
    IF n = 1
    THEN Leaves \cup {Arr(<<>>), Map(EmptyFields)}
    ELSE {Arr(a) : a \in SeqsOfSize(n - 1)}
         \cup {Map(m) : m \in FieldsOfSize(FieldNames, n - 1)}

\* the non-empty sequences whose elements have n nodes together, n >= 1
SeqsOfSize(n) ==
    UNION {
        IF i = n
        THEN {<<v>> : v \in ValuesOfSize(i)}
        ELSE {<<v>> \o rest : v \in ValuesOfSize(i), rest \in SeqsOfSize(n - i)}
        : i \in 1..n }

\* the functions from a subset of names whose values have n nodes together
FieldsOfSize(names, n) ==
    IF n = 0 THEN {EmptyFields}
    ELSE IF names = {} THEN {}
    ELSE LET name == CHOOSE k \in names : TRUE
             others == names \ {name}
         IN  FieldsOfSize(others, n)
             \cup UNION {
                 {(name :> v) @@ rest :
                     v \in ValuesOfSize(i), rest \in FieldsOfSize(others, n - i)}
                 : i \in 1..n }

Scenario ==
    Map([k \in {"a", "b", "c", "d", "f", "h", "i", "j", "k"} |->
        CASE k = "a" -> Str(sMarker \o <<" ", "F", "O", "R">>)
          [] k = "b" -> Str(sEmpty)
          [] k = "c" -> Str(sOk)
          [] k = "d" -> Map([e \in {"e"} |-> Str(sMarker)])
          [] k = "f" -> Map([g \in {"g"} |-> Str(sOk)])
          [] k = "h" -> Arr(<<>>)
          [] k = "i" -> Arr(<<Num(1), Num(2)>>)
          [] k = "j" -> Null
          [] k = "k" -> Num(5)])

Records ==
    UNION {{Map(m) : m \in FieldsOfSize(FieldNames, n - 1)} : n \in 1..MaxNodes}
    \cup {Scenario}

---------------------------------------------------------------------------
(* The filter development: the filter applied to a record, and again to     *)
(* its own output.                                                         *)

DriverIdle ==
    /\ apiKeys = <<>> /\ domain = <<>> /\ hideRedacted = FALSE
    /\ pc = "idle" /\ keys = <<>> /\ idx = 1 /\ success = FALSE
    /\ calls = <<>> /\ lastResp = Null /\ lastResult = Null
    /\ stdout = <<>> /\ exitCode = -1

CleanInit ==
    /\ DriverIdle
    /\ node \in Records
    /\ result = NilMap
    /\ again = NilMap
    /\ phase = "input"

Clean ==
    /\ phase = "input"
    /\ result' = removeRedactedAndEmptyFields(node)
    /\ phase' = "cleaned"
    /\ UNCHANGED <<driverVars, node, again>>

CleanAgain ==
    /\ phase = "cleaned"
    /\ again' = removeRedactedAndEmptyFields(result)
    /\ phase' = "recleaned"
    /\ UNCHANGED <<driverVars, node, result>>

CleanNext == Clean \/ CleanAgain

CleanSpec == CleanInit /\ [][CleanNext]_vars

---------------------------------------------------------------------------
(* Properties of the filter, checked under CleanSpec.                      *)

\* s has the marker as a substring, said without strings.Contains
HasMarker(s) ==
    \E i \in 1..Len(s), j \in 1..Len(s) : SubSeq(s, i, j) = sMarker

\* a field the rules name for removal: null, the empty string, a string
\* with the marker, the empty sequence, a mapping of such fields only
RECURSIVE Vacuous(_)
Vacuous(v) ==
    CASE v.t = "null"   -> TRUE
      [] v.t = "string" -> v.s = <<>> \/ HasMarker(v.s)
      [] v.t = "array"  -> v.a = <<>>
      [] v.t = "map"    -> \A k \in DOMAIN v.m : Vacuous(v.m[k])
      [] OTHER          -> FALSE

\* C4: the filter is idempotent: applied to its own output it returns that
\* output, for every record mapping.
C4_Idempotent == phase = "recleaned" => again = result

\* a nested mapping lost some of its fields in the first pass and stayed
C4_Witness ==
    /\ phase = "recleaned"
    /\ \E k \in DOMAIN result.m :
          /\ node.m[k].t = "map"
          /\ result.m[k] # node.m[k]

\* every field of the mapping is non-null, a string field non-empty and
\* without the marker, a mapping field non-empty and again of this kind
RECURSIVE Surviving(_)
Surviving(v) ==
    \A k \in DOMAIN v.m :
        LET f == v.m[k]
        IN  /\ f.t # "null"
            /\ f.t = "string" => (f.s # <<>> /\ ~HasMarker(f.s))
            /\ f.t = "map" => (DOMAIN f.m # {} /\ Surviving(f))

\* C5: every key of the filter's output maps to a value that is non-null,
\* if a string non-empty and without the marker, if a mapping non-empty,
\* and so at every depth reached through mapping fields.
C5_OutputFields == phase \in {"cleaned", "recleaned"} => Surviving(result)

\* a nested mapping with fields was emptied by the filter and is absent
C5_Witness ==
    /\ phase = "cleaned"
    /\ \E k \in DOMAIN node.m :
          /\ node.m[k].t = "map"
          /\ DOMAIN node.m[k].m # {}
          /\ k \notin DOMAIN result.m

\* the sequence fields of in are in out exactly when non-empty, and then
\* unchanged; the same for the mappings of in that out keeps
RECURSIVE SequencesUntouched(_, _)
SequencesUntouched(in, out) ==
    \A k \in DOMAIN in.m :
        LET f == in.m[k]
        IN  /\ f.t = "array" =>
                  /\ (k \in DOMAIN out.m) <=> (Len(f.a) >= 1)
                  /\ k \in DOMAIN out.m => out.m[k] = f
            /\ (f.t = "map" /\ k \in DOMAIN out.m) =>
                  /\ out.m[k].t = "map"
                  /\ SequencesUntouched(f, out.m[k])

\* C6: a sequence field is in the output iff the sequence has an element,
\* and then with exactly the input's elements in the input's order.
C6_Sequences ==
    phase \in {"cleaned", "recleaned"} => SequencesUntouched(node, result)

\* a sequence was kept whose element the filter would drop as a field
C6_Witness ==
    /\ phase = "cleaned"
    /\ \E k \in DOMAIN result.m :
          /\ node.m[k].t = "array"
          /\ \E i \in 1..Len(node.m[k].a) :
                /\ Vacuous(node.m[k].a[i])
                /\ result.m[k].a[i] = node.m[k].a[i]

\* out has no key in lacks; numbers, booleans and the strings that are
\* non-empty and without the marker are kept unchanged; a key is gone only
\* if its value is one the rules name; the same for the mappings kept
RECURSIVE OnlyNamedDropped(_, _)
OnlyNamedDropped(in, out) ==
    /\ DOMAIN out.m \subseteq DOMAIN in.m
    /\ \A k \in DOMAIN in.m :
          LET f == in.m[k]
          IN  /\ f.t \in {"number", "bool"} =>
                    (k \in DOMAIN out.m /\ out.m[k] = f)
              /\ (f.t = "string" /\ f.s # <<>> /\ ~HasMarker(f.s)) =>
                    (k \in DOMAIN out.m /\ out.m[k] = f)
              /\ k \notin DOMAIN out.m => Vacuous(f)
              /\ (f.t = "map" /\ k \in DOMAIN out.m) =>
                    (out.m[k].t = "map" /\ OnlyNamedDropped(f, out.m[k]))

ScenarioCleaned ==
    Map([k \in {"c", "f", "i", "k"} |->
        CASE k = "c" -> Str(sOk)
          [] k = "f" -> Map([g \in {"g"} |-> Str(sOk)])
          [] k = "i" -> Arr(<<Num(1), Num(2)>>)
          [] k = "k" -> Num(5)])

\* C7: the filter drops nothing but what the rules name: numbers, booleans
\* and non-empty strings without the exact marker are kept unchanged, a key
\* is absent only for a null, an empty string, a string with the marker, an
\* empty sequence or a mapping that cleans to empty, and no key is added;
\* the documented scenario yields the documented record.
C7_OnlyNamedDropped ==
    phase \in {"cleaned", "recleaned"} =>
        /\ OnlyNamedDropped(node, result)
        /\ node = Scenario => result = ScenarioCleaned

\* the marker in lower case, the number 0 and false were kept
C7_Witness ==
    /\ phase = "cleaned"
    /\ \E k \in DOMAIN result.m :
          /\ result.m[k] = Str(sLower)
          /\ \E h \in DOMAIN result.m : result.m[h] \in {Num(0), Bool(FALSE)}

---------------------------------------------------------------------------
(* The lookup client, lines 15-45.  A response is what the remote end and   *)
(* the transport produce for one http.Get: whether the request got through, *)
(* the status code, whether the body could be read, and the body.  A body   *)
(* is the empty string, text that is no JSON, or the text of a JSON value.  *)

\* the status code line 24 compares with
StatusOK == 200
\* the status codes tried: success and a refused request
Statuses == {StatusOK, 403}

EmptyBody   == [kind |-> "empty"]
GarbageBody == [kind |-> "garbage"]
JsonBody(v) == [kind |-> "json", val |-> v]

sError == <<"e", "r", "r">>

JsonValues ==
    { Null, Arr(<<>>), Str(sOk), Map(EmptyFields), Scenario,
      Map([k \in {"error"} |-> Str(sError)]),
      Map([k \in {"error", "a"} |-> IF k = "error" THEN Null ELSE Str(sOk)]),
      Map([k \in {"Error"} |-> Str(sError)]),
      Map([k \in {"a"} |-> Map([e \in {"error"} |-> Str(sError)])]),
      Map([k \in {"a", "b"} |-> IF k = "a" THEN Str(sMarker) ELSE Str(sEmpty)]),
      Map([k \in {"a", "b"} |->
              IF k = "a" THEN Str(sOk) ELSE Map([e \in {"a"} |-> Str(sPrivacy)])]) }

Bodies == {EmptyBody, GarbageBody} \cup {JsonBody(v) : v \in JsonValues}

TransportFailure == [sent |-> FALSE]

\* a body that could not be read has no content the program sees
Responses ==
    {TransportFailure}
    \cup [sent : {TRUE}, status : Statuses,
          readable : {TRUE}, body : Bodies]
    \cup [sent : {TRUE}, status : Statuses,
          readable : {FALSE}, body : {EmptyBody}]

\* json.Unmarshal(body, &m) for m a nil map[string]interface{}: an object
\* fills the map, null leaves it nil, anything else is an error
Unmarshal(body) ==
    CASE body.kind # "json"     -> [err |-> TRUE, m |-> NilMap]
      [] body.val.t = "map"     -> [err |-> FALSE, m |-> body.val]
      [] body.val.t = "null"    -> [err |-> FALSE, m |-> NilMap]
      [] OTHER                  -> [err |-> TRUE, m |-> NilMap]

\* a client that takes an error key with a null value for no error
HasErrorValue(m) ==
    "error" \in DOMAIN Entries(m) /\ Entries(m)["error"].t # "null"

\* _, ok := result["error"], line 40
HasError(m) == "error" \in DOMAIN Entries(m)

\* fetchIP2Whois(apiKey, domain), given the response its http.Get meets
fetchIP2Whois(apiKey, dom, resp) ==
    IF ~resp.sent
    THEN [body |-> EmptyBody, err |-> "transport"]
    ELSE IF resp.status # StatusOK
    THEN [body |-> EmptyBody, err |-> "status"]
    ELSE IF ~resp.readable
    THEN [body |-> EmptyBody, err |-> "read"]
    ELSE IF Unmarshal(resp.body).err
    THEN [body |-> EmptyBody, err |-> "parse"]
    ELSE IF HasError(Unmarshal(resp.body).m)
    THEN [body |-> EmptyBody, err |-> "api"]
    ELSE [body |-> resp.body, err |-> "nil"]

---------------------------------------------------------------------------
(* The driver, lines 80-136.                                               *)

\* the -k flag values tried: up to MaxKeys segments joined by commas, a
\* segment being empty, blank, a token, or a token with blanks around it
Segments == { <<>>, <<" ">>, <<"a">>, <<"b">>, <<" ", "a">>,
              <<" ", "a", " ", "b", " ">> }

RECURSIVE Join(_, _)
Join(segs, sep) ==
    IF Len(segs) = 1 THEN segs[1]
    ELSE segs[1] \o <<sep>> \o Join(Tail(segs), sep)

FlagValues ==
    {Join(segs, ",") : segs \in UNION {[1..n -> Segments] : n \in 1..MaxKeys}}

DomainValues == {<<>>, <<"x", ".", "i", "o">>}

IsSpace(c) == c \in {" ", "\t", "\n", "\r"}

\* strings.TrimSpace(s)
RECURSIVE TrimSpace(_)
TrimSpace(s) ==
    IF s = <<>> THEN s
    ELSE IF IsSpace(Head(s)) THEN TrimSpace(Tail(s))
    ELSE IF IsSpace(s[Len(s)]) THEN TrimSpace(SubSeq(s, 1, Len(s) - 1))
    ELSE s

\* strings.Split(s, sep) for a separator of one character
RECURSIVE Split(_, _)
Split(s, sep) ==
    IF \A i \in 1..Len(s) : s[i] # sep
    THEN <<s>>
    ELSE LET i == CHOOSE j \in 1..Len(s) :
                      s[j] = sep /\ \A h \in 1..(j - 1) : s[h] # sep
         IN  <<SubSeq(s, 1, i - 1)>> \o Split(SubSeq(s, i + 1, Len(s)), sep)

\* json.MarshalIndent(jsonData, "", "  "): the JSON value the text denotes;
\* the nil map is written null
MarshalIndent(jsonData) ==
    IF jsonData.t = "nilmap" THEN Null ELSE jsonData

Line(text)   == [kind |-> "text", text |-> text]
Record(val)  == [kind |-> "json", val |-> val]

\* the value of jsonData after lines 114-117
Filtered(hide, jsonData) ==
    IF hide THEN removeRedactedAndEmptyFields(jsonData) ELSE jsonData

\* a loop that stays on the element it has just tried
SameIndex(i) == i

\* the next element the range loop of line 104 visits
NextIndex(i) == i + 1

\* a driver that forgets to record the success
SuccessNotSet == FALSE

\* success = true, line 127
SuccessFlag == TRUE

\* a driver that goes on with the next key after printing
NoBreak == "loop"

\* where main goes on after printing: break, line 128
AfterPrint == "afterLoop"

Init ==
    /\ apiKeys \in FlagValues
    /\ domain \in DomainValues
    /\ hideRedacted \in BOOLEAN
    /\ pc = "checkDomain"
    /\ keys = <<>>
    /\ idx = 1
    /\ success = FALSE
    /\ calls = <<>>
    /\ lastResp = Null
    /\ lastResult = Null
    /\ stdout = <<>>
    /\ exitCode = -1
    /\ node = NilMap /\ result = NilMap /\ again = NilMap /\ phase = "idle"

\* lines 87-91
CheckDomain ==
    /\ pc = "checkDomain"
    /\ IF domain = <<>>
       THEN /\ stdout' = Append(stdout, Line("Error: Domain (-d) flag is required."))
            /\ exitCode' = 1
            /\ pc' = "exited"
       ELSE /\ pc' = "checkKeys"
            /\ UNCHANGED <<stdout, exitCode>>
    /\ UNCHANGED <<apiKeys, domain, hideRedacted, keys, idx, success, calls,
                   lastResp, lastResult, filterVars>>

\* lines 93-97
CheckKeys ==
    /\ pc = "checkKeys"
    /\ IF apiKeys = <<>>
       THEN /\ stdout' = Append(stdout, Line("Error: API keys (-k) flag is required."))
            /\ exitCode' = 1
            /\ pc' = "exited"
       ELSE /\ pc' = "split"
            /\ UNCHANGED <<stdout, exitCode>>
    /\ UNCHANGED <<apiKeys, domain, hideRedacted, keys, idx, success, calls,
                   lastResp, lastResult, filterVars>>

\* line 100
SplitKeys ==
    /\ pc = "split"
    /\ keys' = Split(apiKeys, ",")
    /\ idx' = 1
    /\ pc' = "loop"
    /\ UNCHANGED <<apiKeys, domain, hideRedacted, success, calls, lastResp,
                   lastResult, stdout, exitCode, filterVars>>

\* one iteration of the loop, lines 104-130, for the response its lookup meets
TryKey ==
    /\ pc = "loop"
    /\ idx <= Len(keys)
    /\ \E resp \in Responses :
        LET apiKey == TrimSpace(keys[idx])
            r      == fetchIP2Whois(apiKey, domain, resp)
            parsed == Unmarshal(r.body)
            out    == MarshalIndent(Filtered(hideRedacted, parsed.m))
        IN  /\ calls' = Append(calls, [apiKey |-> apiKey, domain |-> domain,
                                       ok |-> r.err = "nil"])
            /\ lastResp' = resp
            /\ lastResult' = r
            \* the loop variable is not read again after the break
            /\ idx' = NextIndex(idx)
            /\ IF r.err # "nil"
               THEN UNCHANGED <<pc, stdout, success, exitCode>>
               ELSE IF parsed.err
               THEN /\ stdout' = Append(stdout, Line("Error parsing JSON"))
                    /\ exitCode' = 1
                    /\ pc' = "exited"
                    /\ UNCHANGED success
               ELSE /\ stdout' = Append(stdout, Record(out))
                    /\ success' = SuccessFlag
                    /\ pc' = AfterPrint
                    /\ UNCHANGED exitCode
    /\ UNCHANGED <<apiKeys, domain, hideRedacted, keys, filterVars>>

\* the range of line 104 is exhausted
LoopEnd ==
    /\ pc = "loop"
    /\ idx > Len(keys)
    /\ pc' = "afterLoop"
    /\ UNCHANGED <<apiKeys, domain, hideRedacted, keys, idx, success, calls,
                   lastResp, lastResult, stdout, exitCode, filterVars>>

\* lines 132-136
Finish ==
    /\ pc = "afterLoop"
    /\ IF ~success
       THEN /\ stdout' = Append(stdout, Line("All API keys failed."))
            /\ exitCode' = 1
       ELSE /\ exitCode' = 0
            /\ UNCHANGED stdout
    /\ pc' = "exited"
    /\ UNCHANGED <<apiKeys, domain, hideRedacted, keys, idx, success, calls,
                   lastResp, lastResult, filterVars>>

Next == CheckDomain \/ CheckKeys \/ SplitKeys \/ TryKey \/ LoopEnd \/ Finish

Spec == Init /\ [][Next]_vars

---------------------------------------------------------------------------
(* Properties of the driver and of the lookup client, checked under Spec.  *)

\* the records printed so far
RecordsPrinted == SelectSeq(stdout, LAMBDA l : l.kind = "json")

\* the last call of fetchIP2Whois succeeded
LastCallOk == calls # <<>> /\ calls[Len(calls)].ok

\* the record main is to print for the body a successful lookup returned
Expected(body) ==
    IF hideRedacted
    THEN removeRedactedAndEmptyFields(IF body.val.t = "null" THEN NilMap ELSE body.val)
    ELSE body.val

\* C1: main calls fetchIP2Whois for the keys one at a time in list order,
\* stops at the first key whose lookup succeeds (no lookup follows a
\* successful one), and prints the record returned for that key and nothing
\* else; while every lookup has failed nothing is printed by the loop.
C1_FirstSuccessWins ==
    /\ Len(calls) <= Len(keys)
    /\ \A i \in 1..Len(calls) :
          /\ calls[i].apiKey = TrimSpace(keys[i])
          /\ calls[i].domain = domain
          /\ i < Len(calls) => ~calls[i].ok
    /\ LastCallOk => stdout = <<Record(Expected(lastResult.body))>>
    /\ (~LastCallOk /\ pc \in {"loop", "afterLoop"}) => stdout = <<>>

\* the first lookup failed, the second succeeded, and a third key was left
C1_Witness ==
    /\ pc = "exited"
    /\ exitCode = 0
    /\ Len(calls) = 2
    /\ Len(keys) = 3
    /\ ~calls[1].ok
    /\ calls[1].apiKey # calls[2].apiKey
    /\ Len(RecordsPrinted) = 1

\* C2: with both flags supplied, a run in which some lookup succeeds prints
\* the record exactly once and exits with code 0; a run in which the lookup
\* fails for every key never prints a record, reports that all keys failed
\* and exits with code 1.
C2_ExitAndOutput ==
    /\ Len(RecordsPrinted) <= 1
    /\ (\A i \in 1..Len(calls) : ~calls[i].ok) => RecordsPrinted = <<>>
    /\ (pc = "exited" /\ domain # <<>> /\ apiKeys # <<>>) =>
          IF \E i \in 1..Len(calls) : calls[i].ok
          THEN /\ Len(RecordsPrinted) = 1
               /\ Len(stdout) = 1
               /\ exitCode = 0
          ELSE /\ Len(calls) = Len(keys)
               /\ stdout = <<Line("All API keys failed.")>>
               /\ exitCode = 1

\* every key of a list of several keys failed and the run ended
C2_Witness ==
    /\ pc = "exited"
    /\ exitCode = 1
    /\ Len(calls) = 3
    /\ \A i \in 1..Len(calls) : ~calls[i].ok

\* the request completed with status 200 and a body that parses into the
\* map (a JSON object or null) without a top-level error key
Acceptable(resp) ==
    /\ resp.sent
    /\ resp.status = 200
    /\ resp.readable
    /\ resp.body.kind = "json"
    /\ resp.body.val.t \in {"map", "null"}
    /\ resp.body.val.t = "map" => "error" \notin DOMAIN resp.body.val.m

\* C3: fetchIP2Whois returns success, with the body, iff the request
\* completed, the status is 200, the body parses and the parsed body has no
\* top-level error key; otherwise it returns a failure and no record.
C3_FetchOutcome ==
    calls # <<>> =>
        /\ (lastResult.err = "nil") <=> Acceptable(lastResp)
        /\ calls[Len(calls)].ok <=> Acceptable(lastResp)
        /\ Acceptable(lastResp) => lastResult.body = lastResp.body
        /\ ~Acceptable(lastResp) => lastResult.body = EmptyBody

\* a 200 response whose only flaw is an error key holding null was refused
C3_Witness ==
    /\ calls # <<>>
    /\ lastResult.err = "api"
    /\ lastResp.status = 200
    /\ lastResp.body.val.m["error"] = Null

\* C8 (as claimed): every credential passed to fetchIP2Whois is a trimmed,
\* non-empty token.
C8_TrimmedNonEmpty ==
    \A i \in 1..Len(calls) :
        LET k == calls[i].apiKey
        IN  /\ k # <<>>
            /\ ~IsSpace(k[1])
            /\ ~IsSpace(k[Len(k)])

\* C9 (as claimed): a credential whose lookup has failed is never passed to
\* fetchIP2Whois again, so there are never more lookups than distinct keys.
C9_NoCredentialReuse ==
    /\ \A i \in 1..Len(calls) : \A j \in (i + 1)..Len(calls) :
          ~calls[i].ok => calls[j].apiKey # calls[i].apiKey
    /\ Len(calls) <= Cardinality({TrimSpace(keys[i]) : i \in 1..Len(keys)})

\* C9 (amended): no entry of the key list is looked up more than once: the
\* i-th lookup is for the i-th entry, there are never more lookups than
\* entries, and a credential is looked up at most as often as the list
\* names it.
C9_EachEntryOnce ==
    /\ Len(calls) <= Len(keys)
    /\ pc = "loop" => idx = Len(calls) + 1
    /\ \A i \in 1..Len(calls) :
          Cardinality({j \in 1..Len(calls) : calls[j].apiKey = calls[i].apiKey})
              <= Cardinality({j \in 1..Len(keys) :
                                 TrimSpace(keys[j]) = calls[i].apiKey})

\* a credential the list names twice failed and was looked up again
C9_Witness ==
    \E i \in 1..Len(calls) : \E j \in (i + 1)..Len(calls) :
        /\ ~calls[i].ok
        /\ calls[i].apiKey # <<>>
        /\ calls[j].apiKey = calls[i].apiKey

\* C10: with -clean set, a successful lookup whose record loses every field
\* in the filter still ends the run as a success: the empty mapping is
\* printed once and nothing else, no further key is tried, and the exit
\* code is 0.
C10_EmptyResultIsSuccess ==
    (/\ hideRedacted
     /\ LastCallOk
     /\ Vacuous(IF lastResult.body.val.t = "null"
                THEN Map(EmptyFields) ELSE lastResult.body.val)) =>
        /\ stdout = <<Record(Map(EmptyFields))>>
        /\ success
        /\ pc \in {"afterLoop", "exited"}
        /\ pc = "exited" => exitCode = 0

\* a record with fields was cleaned to the empty mapping, with a key left
C10_Witness ==
    /\ pc = "exited"
    /\ hideRedacted
    /\ LastCallOk
    /\ lastResult.body.val.t = "map"
    /\ DOMAIN lastResult.body.val.m # {}
    /\ stdout = <<Record(Map(EmptyFields))>>
    /\ exitCode = 0
    /\ Len(calls) < Len(keys)

====
